---- MODULE Spec2Model ----
(***************************************************************************)
(* Gas delivery core of FASST-CAT: flow conversion and setpoint writing    *)
(* (FlowSMS.set_flowrate, FlowSMS.setpoints, FlowSMS.setpoints_old) and    *)
(* the pressure watchdog (pressure_alarm).                                 *)
(*                                                                         *)
(* Flows are fixed-point numbers in hundredths of a sccm (1500 = 15.00     *)
(* sccm); calibration factors are in hundredths (100 = 1.0).  An optional  *)
(* Python value is a sequence: <<>> is None, <<v>> is the value v.         *)
(***************************************************************************)
EXTENDS Integers, Sequences, FiniteSets, TLC

VARIABLES
  phase,            \* flow interface: "idle" or "done" (a call has ended)
  mfc,              \* flow controllers: node -> [cal, sp]
  last,             \* the call that ended last, with its device I/O
  finished,         \* the threading.Event of the guarded call
  wpc,              \* position of monitor_pressure
  opc,              \* position of wrapper on the caller's thread
  sample,           \* <<p_a, p_b>> of the last pressure_report
  wlog,             \* what the watcher did since its last sample
  opSteps,          \* statements the guarded operation has executed
  opResult,         \* how the guarded operation ended
  result,           \* what wrapper handed to its caller
  tempSp,           \* setpoint register of the temperature controller
  alarmSeen,        \* a sample of this guarded call was out of bounds
  stepsAfterAlarm,  \* statements of the operation executed after that
  zeroedAll,        \* every setpoint was 0 when the watcher's setpoints() returned
  wr,               \* the set_flowrate call on an unreliable line that ended last
  euro,             \* the temperature controller and the call that writes to it
  vlv,              \* the valve controller and the call that drives it
  gc,               \* the valves of the manifold and the GasControl call on them
  pr,               \* FlowSMS.p_a, p_b and the pressure_report calls of two threads
  fd,               \* the set_flowrate call with a loaded gas table that ended last
  alarm             \* the branch of the if / elif the watcher's last sample took

flowVars == <<phase, mfc, last>>

guardVars == <<finished, wpc, opc, sample, wlog, opSteps, opResult, result,
               tempSp, alarmSeen, stepsAfterAlarm, zeroedAll, alarm>>

extVars == <<wr, euro, vlv, gc, pr, fd>>

vars == <<phase, mfc, last, finished, wpc, opc, sample, wlog, opSteps,
          opResult, result, tempSp, alarmSeen, stepsAfterAlarm, zeroedAll,
          wr, euro, vlv, gc, pr, fd, alarm>>

-----------------------------------------------------------------------------
(* Bounds of the model *)

\* longest console dialogue (answers typed at the range prompts) of one call
MaxPrompts == 2

\* most keyword arguments passed to one setpoints call
MaxKeys == 2

\* most statements the guarded operation executes before it ends
MaxOpSteps == 2

-----------------------------------------------------------------------------
(* Program constants *)

\* pressure_alarm(low_threshold=10, high_threshold=30), psia
low_threshold == 10

high_threshold == 30

\* setpoint_finish_experiment: sp = 20 C, written as int(sp * 10)
FinishSp == 20 * 10

\* a working setpoint of the furnace, 500 C in tenths
WorkingSp == 500 * 10

-----------------------------------------------------------------------------
(* Optional values *)

None == <<>>

Some(v) == <<v>>

IsNone(x) == x = <<>>

Val(x) == x[1]

-----------------------------------------------------------------------------
(* Calibration table *)

gas_list == <<"O2_A", "He_A", "Ar_A", "N2_A">>

Gases == {gas_list[i] : i \in 1..Len(gas_list)}

gas_ID == [g \in Gases |-> IF g = "O2_A" THEN 5 ELSE 8]

Nodes == {gas_ID[g] : g \in Gases}

gas_cal == [g \in Gases |->
              CASE g = "O2_A" -> None
                [] g = "He_A" -> Some(0)
                [] g = "Ar_A" -> Some(1)
                [] g = "N2_A" -> Some(2)]

gas_flow_range == [g \in Gases |->
                     IF g = "O2_A" THEN <<60, 3000>> ELSE <<120, 6000>>]

calibration_factor == [g \in Gases |-> 100]

gas_float_to_int_factor == [g \in Gases |-> IF g = "O2_A" THEN 30 ELSE 60]

\* the mutually exclusive families of setpoints, in dictionary order
gas_params == << <<"O2_A">>, <<"He_A", "Ar_A", "N2_A">> >>

-----------------------------------------------------------------------------
(* Inputs *)

\* requested flows: closed; 0.70 sccm, inside the O2 range and below the
\* carrier minimum; 15.00 sccm, inside every range; 70.00 sccm, above every
\* maximum
FlowNums == {0, 70, 1500, 7000}

FlowVals == {None} \cup {Some(f) : f \in FlowNums}

\* one answer at the range prompt: "Yes" is followed by the text of a new
\* flow (None when the text is not a number), anything else stands alone
ReplyFlows == {None, Some(1500), Some(7000)}

Replies == {[ans |-> "Yes", new |-> v] : v \in ReplyFlows}
             \cup {[ans |-> "No", new |-> None], [ans |-> "other", new |-> None]}

\* keyword values of setpoints: None, closed, 0.70 sccm (below the carrier
\* minimum), 15.00 sccm (inside every range)
KwVals == {None, Some(0), Some(70), Some(1500)}

Kwargs == UNION {[ks -> KwVals] : ks \in {s \in SUBSET Gases : Cardinality(s) <= MaxKeys}}

-----------------------------------------------------------------------------
(* Arithmetic of the conversion *)

\* int(): truncation toward zero of num/den, den > 0
IntTrunc(num, den) == IF num >= 0 THEN num \div den ELSE -((-num) \div den)

\* round(): nearest integer of num/den, ties to even, num >= 0, den > 0
RoundHalfEven(num, den) ==
  LET q == num \div den
      r == num % den
  IN IF 2 * r < den THEN q
     ELSE IF 2 * r > den THEN q + 1
     ELSE IF q % 2 = 0 THEN q ELSE q + 1

\* flow / calibration_factor[gas] compared with the ends of the range
below_min(gas, flow) == flow * 100 < gas_flow_range[gas][1] * calibration_factor[gas]

above_max(gas, flow) == flow * 100 > gas_flow_range[gas][2] * calibration_factor[gas]

\* variant: the scale of the 30 sccm controllers is used for every gas
flow_data_scale_30(gas, flow) ==
  IntTrunc(flow * 32000, calibration_factor[gas] * 30)

\* int(flow_conv * 32000 / gas_float_to_int_factor[gas])
flow_data(gas, flow) ==
  IntTrunc(flow * 32000, calibration_factor[gas] * gas_float_to_int_factor[gas])

-----------------------------------------------------------------------------
(* Device I/O events *)

Ev(ev, gas, node, parm, data) ==
  [ev |-> ev, gas |-> gas, node |-> node, parm |-> parm, data |-> data]

PromptEv(gas, flow) == Ev("prompt", gas, 0, 0, flow)

FeedEv(gas) == Ev("feed", gas, 0, 0, 0)

\* parameter 16 selects the calibration curve, parameter 1 is the setpoint
CalWrite(gas) == Ev("write", gas, gas_ID[gas], 16, Val(gas_cal[gas]))

SpWrite(gas, data) == Ev("write", gas, gas_ID[gas], 1, data)

-----------------------------------------------------------------------------
(* FlowSMS.set_flowrate *)

\* variant: only None counts as closed
is_closed_none_only(flow) == IsNone(flow)

\* (flow is None) or (flow == 0.0)
is_closed(flow) == IsNone(flow) \/ Val(flow) = 0

LoopResult(status, flow, script, log) ==
  [status |-> status, flow |-> flow, script |-> script, log |-> log]

\* The while True loop: returns the flow whose conversion is flow_conv when
\* the loop is left by break ("ok"), or the way the call ends instead:
\* "SystemExit" (answer No), "ValueError" (float() of the typed text fails),
\* "waiting" (input() has nothing to read yet).
\* variant: the flow typed after "Yes" is taken as it is
range_loop_trusts_new(gas, flow, script, log) ==
  IF is_closed(flow) THEN LoopResult("ok", 0, script, log)
  ELSE IF below_min(gas, Val(flow)) \/ above_max(gas, Val(flow))
  THEN LET log1 == Append(log, PromptEv(gas, Val(flow)))
       IN IF script = <<>> THEN LoopResult("waiting", Val(flow), script, log1)
          ELSE LET reply == Head(script)
               IN CASE reply.ans = "Yes" ->
                         IF IsNone(reply.new)
                         THEN LoopResult("ValueError", Val(flow), Tail(script), log1)
                         ELSE LoopResult("ok", Val(reply.new), Tail(script), log1)
                    [] reply.ans = "No" ->
                         LoopResult("SystemExit", Val(flow), Tail(script), log1)
                    [] OTHER ->
                         LoopResult("ok", Val(flow), Tail(script), log1)
  ELSE LoopResult("ok", Val(flow), script, log)

RECURSIVE range_loop(_, _, _, _)
range_loop(gas, flow, script, log) ==
  IF is_closed(flow) THEN LoopResult("ok", 0, script, log)
  ELSE IF below_min(gas, Val(flow)) \/ above_max(gas, Val(flow))
  THEN LET log1 == Append(log, PromptEv(gas, Val(flow)))
       IN IF script = <<>> THEN LoopResult("waiting", Val(flow), script, log1)
          ELSE LET reply == Head(script)
               IN CASE reply.ans = "Yes" ->
                         IF IsNone(reply.new)
                         THEN LoopResult("ValueError", Val(flow), Tail(script), log1)
                         ELSE range_loop(gas, reply.new, Tail(script), log1)
                    [] reply.ans = "No" ->
                         LoopResult("SystemExit", Val(flow), Tail(script), log1)
                    [] OTHER ->
                         LoopResult("ok", Val(flow), Tail(script), log1)
  ELSE LoopResult("ok", Val(flow), script, log)

\* variant: the setpoint is put in the batch before the calibration curve
param_setpoint_first(gas, data) ==
  <<SpWrite(gas, data)>> \o (IF IsNone(gas_cal[gas]) THEN <<>> ELSE <<CalWrite(gas)>>)

\* the parameters of the batch: the calibration curve when the gas has one,
\* then the setpoint
param(gas, data) ==
  (IF IsNone(gas_cal[gas]) THEN <<>> ELSE <<CalWrite(gas)>>) \o <<SpWrite(gas, data)>>

\* mfc_master.write_parameters: every parameter is stored in its node
RECURSIVE write_parameters(_, _)
write_parameters(m, ps) ==
  IF ps = <<>> THEN m
  ELSE LET p == Head(ps)
           m1 == IF p.parm = 16
                 THEN [m EXCEPT ![p.node].cal = Some(p.data)]
                 ELSE [m EXCEPT ![p.node].sp = p.data]
       IN write_parameters(m1, Tail(ps))

CallResult(status, m, script, log) ==
  [status |-> status, mfc |-> m, script |-> script, log |-> log]

\* set_flowrate(gas, flow) on controllers m with the console answers script;
\* log is the I/O so far and is extended by this call
set_flowrate(m, gas, flow, script, log) ==
  IF gas \notin Gases THEN CallResult("ValueError", m, script, log)
  ELSE LET r == range_loop(gas, flow, script, log)
       IN IF r.status # "ok" THEN CallResult(r.status, m, r.script, r.log)
          ELSE LET log1 == IF r.flow > 0 THEN Append(r.log, FeedEv(gas)) ELSE r.log
                   ps == param(gas, flow_data(gas, r.flow))
               IN CallResult("ok", write_parameters(m, ps), r.script, log1 \o ps)
-----------------------------------------------------------------------------
(* FlowSMS.setpoints and FlowSMS.setpoints_old *)

\* kwargs[option] when the keyword is present, None otherwise
kwarg(kwargs, gas) == IF gas \in DOMAIN kwargs THEN kwargs[gas] ELSE None

\* the inner for loop of setpoints: index of the first option that is in
\* kwargs with a value that is not None, 0 when the loop ends without break
RECURSIVE first_option(_, _, _)
first_option(options, kwargs, i) ==
  IF i > Len(options) THEN 0
  ELSE IF options[i] \in DOMAIN kwargs /\ ~IsNone(kwargs[options[i]]) THEN i
  ELSE first_option(options, kwargs, i + 1)

\* variant: a family without a request is left as it is
family_call_no_default(m, options, kwargs, script, log) ==
  LET i == first_option(options, kwargs, 1)
  IN IF i > 0
     THEN set_flowrate(m, options[i], kwargs[options[i]], script, log)
     ELSE CallResult("ok", m, script, log)

\* one pass of the outer for loop of setpoints: the first option with a
\* request is set to it, and without one options[0] is set to 0.0
family_call(m, options, kwargs, script, log) ==
  LET i == first_option(options, kwargs, 1)
  IN IF i > 0
     THEN set_flowrate(m, options[i], kwargs[options[i]], script, log)
     ELSE set_flowrate(m, options[1], Some(0), script, log)

\* the outer for loop of setpoints from family k on; a set_flowrate that
\* does not return ends the call there
RECURSIVE setpoints_from(_, _, _, _, _)
setpoints_from(m, kwargs, k, script, log) ==
  IF k > Len(gas_params) THEN CallResult("ok", m, script, log)
  ELSE LET r == family_call(m, gas_params[k], kwargs, script, log)
       IN IF r.status # "ok" THEN r
          ELSE setpoints_from(r.mfc, kwargs, k + 1, r.script, r.log)

setpoints(m, kwargs, script) == setpoints_from(m, kwargs, 1, script, <<>>)

\* one if/elif/else chain of setpoints_old: index of the first option but
\* the last whose argument is not None and > 0.0, else the last option
RECURSIVE chain_option(_, _, _)
chain_option(options, kwargs, i) ==
  IF i >= Len(options) THEN Len(options)
  ELSE IF ~IsNone(kwarg(kwargs, options[i])) /\ Val(kwarg(kwargs, options[i])) > 0 THEN i
  ELSE chain_option(options, kwargs, i + 1)

\* the chains of setpoints_old in the order they are written
chains_old == << <<"He_A", "Ar_A", "N2_A">>, <<"O2_A">> >>

RECURSIVE setpoints_old_from(_, _, _, _, _)
setpoints_old_from(m, kwargs, k, script, log) ==
  IF k > Len(chains_old) THEN CallResult("ok", m, script, log)
  ELSE LET options == chains_old[k]
           g == options[chain_option(options, kwargs, 1)]
           r == set_flowrate(m, g, kwarg(kwargs, g), script, log)
       IN IF r.status # "ok" THEN r
          ELSE setpoints_old_from(r.mfc, kwargs, k + 1, r.script, r.log)

setpoints_old(m, kwargs, script) == setpoints_old_from(m, kwargs, 1, script, <<>>)

-----------------------------------------------------------------------------
(* Idle states of the device sessions *)

\* no set_flowrate call on the unreliable line has ended yet
NoWrite == [gas |-> "", flow |-> None, log |-> <<>>, status |-> "none"]

\* registers of the temperature controller: 2 is the setpoint, 35 the rate,
\* both in tenths
SpReg == 2

\* retry_write(..., max_retries=5, retry_delay=1)
max_retries == 5

RateReg == 35

EuroRegs == [r \in {SpReg, RateReg} |-> IF r = SpReg THEN WorkingSp ELSE 10 * 10]

\* no call to the temperature controller is running
EuroCall(regs) ==
  [regs |-> regs, helper |-> "none", pc |-> "idle", stages |-> <<>>,
   reg |-> 0, value |-> 0, max |-> 0, retries |-> 0, log |-> <<>>,
   rw |-> "none", acked |-> FALSE, sp |-> None, rate |-> None,
   failed |-> {}, out |-> "none"]

EuroIdle == EuroCall(EuroRegs)

\* the two-position valves of the manifold
Valves == {"A", "B", "C"}

\* no call to the valve controller has been made; every valve is in its
\* position A (OFF)
NoOut == [kind |-> "none", valve_no |-> "", position |-> ""]

ValveCall(pos) ==
  [pos |-> pos, op |-> "none", valve |-> "", target |-> "", sent |-> <<>>,
   reply |-> <<>>, out |-> NoOut]

ValvesIdle == ValveCall([v \in Valves |-> "A"])

\* nobody has asked for a position
NoSeen == [valve |-> "", name |-> "", at |-> "", sent |-> <<>>, truthful |-> TRUE]

\* no method of GasControl is running on the valves
GcCall(pos) ==
  [pos |-> pos, op |-> "none", pc |-> "idle", todo |-> <<>>, log |-> <<>>,
   readback |-> <<>>, before |-> pos, obeyed |-> TRUE, count |-> 0, left |-> 0,
   out |-> "none", seen |-> NoSeen, apps |-> <<>>, plan |-> <<>>]

GcIdle == GcCall([v \in Valves |-> "A"])

\* the threads that call pressure_report on the one FlowSMS object: the
\* monitor thread and the guarded operation (heating_event)
Threads == {"monitor", "operation"}

\* a thread outside pressure_report
NoReport == [pc |-> "idle", got_a |-> None, got_b |-> None, ret |-> <<>>]

\* no pressure_report has run: the attributes p_a and p_b are not set
ReportIdle == [p_a |-> None, p_b |-> None, th |-> [t \in Threads |-> NoReport]]

\* no set_flowrate call with a loaded gas table has ended yet
NoFeed == [gas |-> "", flow |-> None, table |-> {}, bound |-> {}, status |-> "none",
           log |-> <<>>, pre |-> <<>>]

ExtIdle ==
  /\ wr = NoWrite
  /\ euro = EuroIdle
  /\ vlv = ValvesIdle
  /\ gc = GcIdle
  /\ pr = ReportIdle
  /\ fd = NoFeed

-----------------------------------------------------------------------------
(* Calls of the flow interface *)

NoCall ==
  [op |-> "none", gas |-> "", flow |-> None, kwargs |-> <<>>,
   status |-> "", log |-> <<>>, pre |-> <<>>, script |-> <<>>]

NoResult == [kind |-> "none", val |-> 0]

\* no guarded call is running; the furnace is at its working setpoint
GuardIdle ==
  /\ finished = FALSE
  /\ wpc = "off"
  /\ opc = "idle"
  /\ sample = <<high_threshold, high_threshold>>
  /\ wlog = <<>>
  /\ opSteps = 0
  /\ opResult = NoResult
  /\ result = NoResult
  /\ tempSp = WorkingSp
  /\ alarmSeen = FALSE
  /\ stepsAfterAlarm = 0
  /\ zeroedAll = FALSE
  /\ alarm = "none"

ClosedMfc == [n \in Nodes |-> [cal |-> Some(0), sp |-> 0]]

InitFlow ==
  /\ phase = "idle"
  /\ mfc = ClosedMfc
  /\ last = NoCall
  /\ GuardIdle
  /\ ExtIdle

Call(op, gas, flow, kwargs) == [op |-> op, gas |-> gas, flow |-> flow, kwargs |-> kwargs]

\* the call c on controllers m with the console answers script
RunCall(c, m, script) ==
  CASE c.op = "set_flowrate" -> set_flowrate(m, c.gas, c.flow, script, <<>>)
    [] c.op = "setpoints" -> setpoints(m, c.kwargs, script)
    [] c.op = "setpoints_old" -> setpoints_old(m, c.kwargs, script)

\* the console dialogues with which the call ends (returns or raises): the
\* operator answers each prompt the call makes and types nothing more
RECURSIVE Dialogues(_, _, _)
Dialogues(c, m, script) ==
  IF RunCall(c, m, script).status # "waiting" THEN {script}
  ELSE IF Len(script) >= MaxPrompts THEN {}
  ELSE UNION {Dialogues(c, m, Append(script, x)) : x \in Replies}

\* the call c runs to its end
Perform(c) ==
  /\ phase = "idle"
  /\ \E script \in Dialogues(c, mfc, <<>>) :
       LET r == RunCall(c, mfc, script)
       IN /\ mfc' = r.mfc
          /\ last' = [op |-> c.op, gas |-> c.gas, flow |-> c.flow,
                      kwargs |-> c.kwargs, status |-> r.status, log |-> r.log,
                      pre |-> mfc, script |-> script]
  /\ phase' = "done"
  /\ UNCHANGED <<guardVars, extVars>>

CallSetFlowrate ==
  \E gas \in Gases, flow \in FlowVals : Perform(Call("set_flowrate", gas, flow, <<>>))

CallSetpoints ==
  \E kwargs \in Kwargs : Perform(Call("setpoints", "", None, kwargs))

CallSetpointsOld ==
  \E kwargs \in Kwargs : Perform(Call("setpoints_old", "", None, kwargs))

\* the caller goes on to its next call (not after SystemExit: the process
\* has ended)
NextCall ==
  /\ phase = "done"
  /\ last.status # "SystemExit"
  /\ phase' = "idle"
  /\ last' = NoCall
  /\ UNCHANGED <<mfc>>
  /\ UNCHANGED <<guardVars, extVars>>

NextFlow == CallSetFlowrate \/ CallSetpoints \/ CallSetpointsOld \/ NextCall

SpecFlow == InitFlow /\ [][NextFlow]_vars

-----------------------------------------------------------------------------
(* pressure_alarm: the guarded call *)

\* pressures a report can return, around and on the two thresholds
Pressures == {low_threshold - 5, low_threshold, high_threshold, high_threshold + 5}

\* variant: a line on the high threshold counts as above it
high_alarm_inclusive(p) == p[1] >= high_threshold \/ p[2] >= high_threshold

\* p_a > high_threshold or p_b > high_threshold
high_alarm(p) == p[1] > high_threshold \/ p[2] > high_threshold

\* variant: the elif looks at line A only
low_alarm_line_a(p) == ~high_alarm(p) /\ p[1] < low_threshold

\* the elif: p_a < low_threshold or p_b < low_threshold
low_alarm(p) == ~high_alarm(p) /\ (p[1] < low_threshold \/ p[2] < low_threshold)

\* the controllers with oxygen and argon flowing at 15 sccm
OpenMfc ==
  set_flowrate(set_flowrate(ClosedMfc, "O2_A", Some(1500), <<>>, <<>>).mfc,
               "Ar_A", Some(1500), <<>>, <<>>).mfc

InitGuard ==
  /\ phase = "idle"
  /\ mfc \in {ClosedMfc, OpenMfc}
  /\ last = NoCall
  /\ GuardIdle
  /\ ExtIdle

\* variant: the wrapper keeps one Event for all its calls
GuardedCall_keeps_flag ==
  /\ opc = "idle"
  /\ finished' = finished
  /\ wpc' = "loop"
  /\ opc' = "run"
  /\ UNCHANGED <<flowVars, extVars, sample, wlog, opSteps, opResult, result, tempSp,
                 alarmSeen, stepsAfterAlarm, zeroedAll, alarm>>

\* wrapper up to the try: a new Event, the monitor thread is started
GuardedCall ==
  /\ opc = "idle"
  /\ finished' = FALSE
  /\ wpc' = "loop"
  /\ opc' = "run"
  /\ UNCHANGED <<flowVars, extVars, sample, wlog, opSteps, opResult, result, tempSp,
                 alarmSeen, stepsAfterAlarm, zeroedAll, alarm>>

\* one statement of func: it leaves the shared devices alone or sets a flow
OpStep ==
  /\ opc = "run"
  /\ opSteps < MaxOpSteps
  /\ opSteps' = opSteps + 1
  /\ stepsAfterAlarm' = IF alarmSeen THEN stepsAfterAlarm + 1 ELSE stepsAfterAlarm
  /\ \/ UNCHANGED mfc
     \/ mfc' = set_flowrate(mfc, "He_A", Some(1500), <<>>, <<>>).mfc
  /\ UNCHANGED <<phase, last, extVars, finished, wpc, opc, sample, wlog, opResult,
                 result, tempSp, alarmSeen, zeroedAll, alarm>>

\* func returns a value or raises
OpEnd ==
  /\ opc = "run"
  /\ \E kind \in {"return", "raise"}, val \in 1..2 :
       opResult' = [kind |-> kind, val |-> val]
  /\ opc' = "finally"
  /\ UNCHANGED <<flowVars, extVars, finished, wpc, sample, wlog, opSteps, result,
                 tempSp, alarmSeen, stepsAfterAlarm, zeroedAll, alarm>>

\* variant: the operation polls the flag and stops once it is set
OpNext_polling == ~finished /\ (OpStep \/ OpEnd)

\* the operation's next step
OpNext == OpStep \/ OpEnd

\* finally: finished.set()
FinallySet ==
  /\ opc = "finally"
  /\ finished' = TRUE
  /\ opc' = "join"
  /\ UNCHANGED <<flowVars, extVars, wpc, sample, wlog, opSteps, opResult, result,
                 tempSp, alarmSeen, stepsAfterAlarm, zeroedAll, alarm>>

\* variant: the wrapper returns without monitor_thread.join()
Join_no_wait ==
  /\ opc = "join"
  /\ opc' = IF opResult.kind = "return" THEN "returned" ELSE "raised"
  /\ result' = opResult
  /\ UNCHANGED <<flowVars, extVars, finished, wpc, sample, wlog, opSteps, opResult,
                 tempSp, alarmSeen, stepsAfterAlarm, zeroedAll, alarm>>

\* variant: after the join the wrapper raises when the alarm has fired
Join_alarm_raises ==
  /\ opc = "join"
  /\ wpc = "done"
  /\ opc' = IF opResult.kind = "return" /\ ~alarmSeen THEN "returned" ELSE "raised"
  /\ result' = IF alarmSeen THEN [kind |-> "raise", val |-> 0] ELSE opResult
  /\ UNCHANGED <<flowVars, extVars, finished, wpc, sample, wlog, opSteps, opResult,
                 tempSp, alarmSeen, stepsAfterAlarm, zeroedAll, alarm>>

\* monitor_thread.join(), then return result or the exception goes on
Join ==
  /\ opc = "join"
  /\ wpc = "done"
  /\ opc' = IF opResult.kind = "return" THEN "returned" ELSE "raised"
  /\ result' = opResult
  /\ UNCHANGED <<flowVars, extVars, finished, wpc, sample, wlog, opSteps, opResult,
                 tempSp, alarmSeen, stepsAfterAlarm, zeroedAll, alarm>>

\* the caller goes on; the furnace is put back to work before the next
\* guarded call; the Event of the call that ended stays as it was left
CallerContinues ==
  /\ opc \in {"returned", "raised"}
  /\ opc' = "idle"
  /\ wpc' = "off"
  /\ finished' = finished
  /\ wlog' = <<>>
  /\ opSteps' = 0
  /\ opResult' = NoResult
  /\ result' = NoResult
  /\ tempSp' = WorkingSp
  /\ alarmSeen' = FALSE
  /\ stepsAfterAlarm' = 0
  /\ zeroedAll' = FALSE
  /\ alarm' = "none"
  /\ UNCHANGED <<flowVars, extVars, sample>>

\* variant: the loop does not look at the flag
WLoop_ignores_flag ==
  /\ wpc = "loop"
  /\ wpc' = "read"
  /\ UNCHANGED <<flowVars, extVars, finished, opc, sample, wlog, opSteps, opResult,
                 result, tempSp, alarmSeen, stepsAfterAlarm, zeroedAll, alarm>>

\* while not finished.is_set()
WLoop ==
  /\ wpc = "loop"
  /\ wpc' = IF finished THEN "done" ELSE "read"
  /\ UNCHANGED <<flowVars, extVars, finished, opc, sample, wlog, opSteps, opResult,
                 result, tempSp, alarmSeen, stepsAfterAlarm, zeroedAll, alarm>>

\* p_a, p_b = pressure_report() and the if / elif on the thresholds
WRead ==
  /\ wpc = "read"
  /\ \E p \in Pressures \X Pressures :
       /\ sample' = p
       /\ wpc' = IF high_alarm(p) \/ low_alarm(p) THEN "zero" ELSE "sleep"
       /\ alarmSeen' = (alarmSeen \/ high_alarm(p) \/ low_alarm(p))
       /\ alarm' = IF high_alarm(p) THEN "HIGH" ELSE IF low_alarm(p) THEN "LOW"
                   ELSE "none"
  /\ wlog' = <<"sample">>
  /\ UNCHANGED <<flowVars, extVars, finished, opc, opSteps, opResult, result, tempSp,
                 stepsAfterAlarm, zeroedAll>>

\* pressure_report() raises: a read that was not answered has no data to
\* format, and the exception ends the monitor thread
WReadFails ==
  /\ wpc = "read"
  /\ wpc' = "done"
  /\ UNCHANGED <<flowVars, extVars, finished, opc, sample, wlog, opSteps, opResult,
                 result, tempSp, alarmSeen, stepsAfterAlarm, zeroedAll, alarm>>

\* self.flowSMS.setpoints()
WZero ==
  /\ wpc = "zero"
  /\ mfc' = setpoints(mfc, <<>>, <<>>).mfc
  /\ zeroedAll' = \A n \in Nodes : mfc'[n].sp = 0
  /\ wlog' = Append(wlog, "zero")
  /\ wpc' = "flag"
  /\ UNCHANGED <<phase, last, extVars, finished, opc, sample, opSteps, opResult,
                 result, tempSp, alarmSeen, stepsAfterAlarm, alarm>>

\* print(...); finished.set()
WFlag ==
  /\ wpc = "flag"
  /\ finished' = TRUE
  /\ wlog' = Append(wlog, "flag")
  /\ wpc' = "temp"
  /\ UNCHANGED <<flowVars, extVars, opc, sample, opSteps, opResult, result, tempSp,
                 alarmSeen, stepsAfterAlarm, zeroedAll, alarm>>

\* self.setpoint_finish_experiment(): the setpoint is written and the
\* watcher returns, or the write is not acknowledged, the report of the
\* setpoint raises TypeError and the except clause continues the loop
WTemp ==
  /\ wpc = "temp"
  /\ wlog' = Append(wlog, "temp")
  /\ \/ tempSp' = FinishSp /\ wpc' = "done"
     \/ tempSp' = tempSp /\ wpc' = "loop"
  /\ UNCHANGED <<flowVars, extVars, finished, opc, sample, opSteps, opResult, result,
                 alarmSeen, stepsAfterAlarm, zeroedAll, alarm>>

\* time.sleep(1)
WSleep ==
  /\ wpc = "sleep"
  /\ wlog' = Append(wlog, "sleep")
  /\ wpc' = "loop"
  /\ UNCHANGED <<flowVars, extVars, finished, opc, sample, opSteps, opResult, result,
                 tempSp, alarmSeen, stepsAfterAlarm, zeroedAll, alarm>>

Watcher == WLoop \/ WRead \/ WReadFails \/ WZero \/ WFlag \/ WTemp \/ WSleep

NextGuard ==
  GuardedCall \/ OpNext \/ FinallySet \/ Join \/ CallerContinues \/ Watcher

SpecGuard == InitGuard /\ [][NextGuard]_vars

\* the caller's thread is scheduled: the operation takes its next step
\* whenever it has one
FairSpecGuard == SpecGuard /\ WF_vars(OpNext)

\* the statements of monitor_pressure the thread can be at
WPositions == {"loop", "read", "zero", "flag", "temp", "sleep"}

\* the monitor thread moves on from the statement it is at; in SpecGuard
\* these are the steps of Watcher, one of which is enabled at every position
WatcherAdvances ==
  /\ wpc \in WPositions
  /\ wpc' \in (WPositions \cup {"done"}) \ {wpc}

\* the controllers after the passes of the outer loop of setpoints() before
\* family k
RECURSIVE zeroed_before(_, _)
zeroed_before(m, k) ==
  IF k = 1 THEN m
  ELSE family_call(zeroed_before(m, k - 1), gas_params[k - 1], <<>>, <<>>, <<>>).mfc

\* self.flowSMS.setpoints() raises in the pass of family k: set_flowrate
\* does not know the family's first gas (ValueError) or the write to the
\* controller raises.  The call is outside the try: the exception ends the
\* monitor thread.
WZeroFails ==
  /\ wpc = "zero"
  /\ \E k \in 1..Len(gas_params) : mfc' = zeroed_before(mfc, k)
  /\ wlog' = Append(wlog, "zero raised")
  /\ wpc' = "done"
  /\ UNCHANGED <<phase, last, extVars, finished, opc, sample, opSteps, opResult,
                 result, tempSp, alarmSeen, stepsAfterAlarm, zeroedAll, alarm>>

NextGuardFaults == NextGuard \/ WZeroFails

\* the guarded call when setpoints() can raise
SpecGuardFaults == InitGuard /\ [][NextGuardFaults]_vars

\* both threads are scheduled at the teardown: the monitor thread takes its
\* steps and the join returns once the thread has ended
FairSpecJoin == SpecGuard /\ WF_wpc(WatcherAdvances) /\ WF_vars(Join)

-----------------------------------------------------------------------------
(* FlowSMS.set_flowrate on a line where the controller may not answer *)

\* requested flows: closed, and two flows inside the range of every gas
LineFlows == {None, Some(0), Some(1500), Some(3000)}

\* what mfc_master.write_parameters returns: the status of the batch
LineStatus == {"ok", "timeout"}

\* set_flowrate(gas, flow): the batch is sent once and its status returned;
\* the controller stores the parameters of a batch it acknowledges
SetFlowrateOnLine ==
  /\ wr.status = "none"
  /\ \E gas \in Gases, flow \in LineFlows, status \in LineStatus :
       LET r == set_flowrate(mfc, gas, flow, <<>>, <<>>)
       IN /\ mfc' = IF status = "ok" THEN r.mfc ELSE mfc
          /\ wr' = [gas |-> gas, flow |-> flow, log |-> r.log, status |-> status]
  /\ UNCHANGED <<phase, last, guardVars, euro, vlv, gc, pr, fd>>

\* the caller has the status and goes on
LineCallReturns ==
  /\ wr.status # "none"
  /\ wr' = NoWrite
  /\ UNCHANGED <<flowVars, guardVars, euro, vlv, gc, pr, fd>>

NextWrite == SetFlowrateOnLine \/ LineCallReturns

InitWrite == InitFlow

SpecWrite == InitWrite /\ [][NextWrite]_vars

-----------------------------------------------------------------------------
(* EuroTCP.retry_write and the setpoint helpers that call it *)

\* largest max_retries a direct call of retry_write is given
MaxRetriesArg == 3

\* values a direct call writes: 20.0 C and -5.0 C as int(sp * 10)
RetryValues == {20 * 10, (-5) * 10}

\* What modbustcp.write_single_register returns for one attempt.  A value
\* that is a 16 bit word is sent: True when the controller acknowledged it,
\* None or False when it did not (the client library reports a failed
\* request by one or the other).  Any other value is not sent: the client
\* returns None or raises ValueError.
TransportAcks(value) ==
  IF value \in 0..65535 THEN {"True", "None", "False"} ELSE {"None", "raise"}

WriteEv(ack) == <<"write", ack>>

SleepEv == <<"sleep", "">>

\* retry_write(reg, value, description, max): retries = 0
StartWrite(e, reg, value, max) ==
  [e EXCEPT !.pc = "attempt", !.reg = reg, !.value = value, !.max = max,
            !.retries = 0, !.log = <<>>, !.rw = "none", !.acked = FALSE]

\* retry_write called on its own
RetryWriteCall ==
  /\ euro.pc = "idle"
  /\ \E value \in RetryValues, max \in 1..MaxRetriesArg :
       euro' = StartWrite([euro EXCEPT !.helper = "retry_write"], SpReg, value, max)
  /\ UNCHANGED <<flowVars, guardVars, wr, vlv, gc, pr, fd>>

\* one pass of the while loop up to the sleep: the write, and return True
\* when the response is not None, else retries += 1
RwAttempt ==
  /\ euro.pc = "attempt"
  /\ \E ack \in TransportAcks(euro.value) :
       euro' =
         CASE ack = "raise" ->
                [euro EXCEPT !.log = Append(@, WriteEv(ack)), !.rw = "raise",
                             !.pc = "after"]
           [] ack = "None" ->
                [euro EXCEPT !.log = Append(@, WriteEv(ack)),
                             !.retries = @ + 1, !.pc = "sleep"]
           [] OTHER ->
                [euro EXCEPT !.log = Append(@, WriteEv(ack)), !.rw = "True",
                             !.acked = (ack = "True"),
                             !.regs = IF ack = "True"
                                      THEN [@ EXCEPT ![euro.reg] = euro.value]
                                      ELSE @,
                             !.pc = "after"]
  /\ UNCHANGED <<flowVars, guardVars, wr, vlv, gc, pr, fd>>

\* time.sleep(retry_delay), then the loop test; return False when it fails
RwSleep ==
  /\ euro.pc = "sleep"
  /\ euro' = [euro EXCEPT !.log = Append(@, SleepEv),
                          !.pc = IF euro.retries < euro.max THEN "attempt" ELSE "after",
                          !.rw = IF euro.retries < euro.max THEN "none" ELSE "False"]
  /\ UNCHANGED <<flowVars, guardVars, wr, vlv, gc, pr, fd>>

\* the direct caller has the result, or the exception
RetryWriteReturns ==
  /\ euro.pc = "after"
  /\ euro.helper = "retry_write"
  /\ euro' = [euro EXCEPT !.pc = "done", !.out = euro.rw]
  /\ UNCHANGED <<flowVars, guardVars, wr, vlv, gc, pr, fd>>

Helpers == {"write_wsp", "heating_event", "setpoint_finish_experiment"}

\* the helpers with their arguments in degrees: the writes they make in
\* order, the setpoint and the rate
HelperCalls ==
  {[helper |-> "write_wsp", stages |-> <<"sp">>, sp |-> Some(v), rate |-> None]
     : v \in {20, -5}}
  \cup {[helper |-> "heating_event", stages |-> <<"rate", "sp">>,
         sp |-> Some(500), rate |-> Some(10)],
        [helper |-> "setpoint_finish_experiment", stages |-> <<"sp", "rate">>,
         sp |-> Some(20), rate |-> Some(10)]}

\* variant: the argument is written as it is, in whole degrees
Tenths_degrees(x) == x

\* int(x * 10) of an argument
Tenths(x) == IF IsNone(x) THEN None ELSE Some(Val(x) * 10)

\* the next write of a helper: retry_write(2, sp, "setpoint") or
\* retry_write(35, rate, "rate") with the default max_retries
BeginStage(e) ==
  IF Head(e.stages) = "sp" THEN StartWrite(e, SpReg, Val(e.sp), max_retries)
  ELSE StartWrite(e, RateReg, Val(e.rate), max_retries)

HelperCall ==
  /\ euro.pc = "idle"
  /\ \E c \in HelperCalls :
       euro' = BeginStage([euro EXCEPT !.helper = c.helper, !.stages = c.stages,
                                       !.sp = Tenths(c.sp), !.rate = Tenths(c.rate),
                                       !.failed = {}])
  /\ UNCHANGED <<flowVars, guardVars, wr, vlv, gc, pr, fd>>

\* what a helper does after its last write: write_wsp returns True,
\* heating_event goes on to its temperature loop, setpoint_finish_experiment
\* prints rate * 0.1 and sp * 0.1, which raises TypeError on None
Finish(e) ==
  CASE e.helper = "write_wsp" -> [e EXCEPT !.pc = "done", !.out = "True"]
    [] e.helper = "heating_event" -> [e EXCEPT !.pc = "loop"]
    [] OTHER -> [e EXCEPT !.pc = "done",
                          !.out = IF IsNone(e.sp) \/ IsNone(e.rate)
                                  THEN "TypeError" ELSE "None"]

\* the helper after retry_write: `if not self.retry_write(...)` or the
\* except clause set the local to None; then the next write or the end
HelperAfter ==
  /\ euro.pc = "after"
  /\ euro.helper \in Helpers
  /\ LET st == Head(euro.stages)
         lost == euro.rw # "True"
         e1 == [euro EXCEPT !.stages = Tail(@),
                            !.sp = IF lost /\ st = "sp" THEN None ELSE @,
                            !.rate = IF lost /\ st = "rate" THEN None ELSE @,
                            !.failed = IF euro.rw = "False" THEN @ \cup {st} ELSE @]
     IN euro' = IF e1.stages # <<>> THEN BeginStage(e1) ELSE Finish(e1)
  /\ UNCHANGED <<flowVars, guardVars, wr, vlv, gc, pr, fd>>

\* the temperature loop of heating_event ends (setpoint reached or
\* max_duration exceeded) and the helper returns None
HeatingLoopEnds ==
  /\ euro.pc = "loop"
  /\ euro' = [euro EXCEPT !.pc = "done", !.out = "None"]
  /\ UNCHANGED <<flowVars, guardVars, wr, vlv, gc, pr, fd>>

\* the caller goes on to its next call
EuroReturns ==
  /\ euro.pc = "done"
  /\ euro' = EuroCall(euro.regs)
  /\ UNCHANGED <<flowVars, guardVars, wr, vlv, gc, pr, fd>>

NextRetry ==
  \/ RetryWriteCall
  \/ RwAttempt
  \/ RwSleep
  \/ RetryWriteReturns
  \/ HelperCall
  \/ HelperAfter
  \/ HeatingLoopEnds
  \/ EuroReturns

InitRetry == InitFlow

SpecRetry == InitRetry /\ [][NextRetry]_vars

-----------------------------------------------------------------------------
(* ValvesBase.move_valve_to_position and ValvesBase.get_valve_position *)

\* positions a caller asks for; "MID" is not a position of these valves
Targets == {"ON", "OFF", "MID"}

\* "CC" actuates to ON, "CW" to OFF
command(position) == IF position = "ON" THEN "CC" ELSE "CW"

\* the position code of a target: "B" if position == "ON" else "A"
expected_position(position) == IF position = "ON" THEN "B" ELSE "A"

\* What read() returns after the query "CP", as a sequence of characters:
\* the controller's answer, whose second character is the valve and whose
\* next-to-last is the position code p; nothing (read timed out); a single
\* character of the answer; an answer with another character in place of
\* the code.
QueryReplies(valve, p) ==
  {<<"/", valve, p, ".">>, <<>>, <<p>>, <<"/", valve, "?", ".">>}

\* s[-2]: defined on a string of two characters or more
next_to_last(s) == s[Len(s) - 1]

Returned == [kind |-> "returned", valve_no |-> "", position |-> ""]

IndexError == [kind |-> "IndexError", valve_no |-> "", position |-> ""]

\* move_valve_to_position(valve, position): the command, the settle delay,
\* the query, and the command once more when the code read is not the
\* expected one.  A valve obeys a command or stays where it is.
MoveValve ==
  /\ vlv.op = "none"
  /\ \E valve \in Valves, position \in Targets :
       IF position \notin {"ON", "OFF"}
       THEN vlv' = [vlv EXCEPT !.op = "move", !.valve = valve,
                               !.target = position, !.out = Returned]
       ELSE \E p1 \in {vlv.pos[valve], expected_position(position)} :
              \E reply \in QueryReplies(valve, p1) :
                LET c == [vlv EXCEPT !.op = "move", !.valve = valve,
                                     !.target = position, !.reply = reply]
                    cmd == command(position)
                IN IF Len(reply) < 2
                   THEN vlv' = [c EXCEPT !.pos[valve] = p1,
                                         !.sent = <<cmd, "CP">>,
                                         !.out = IndexError]
                   ELSE IF next_to_last(reply) # expected_position(position)
                   THEN \E p2 \in {p1, expected_position(position)} :
                          vlv' = [c EXCEPT !.pos[valve] = p2,
                                           !.sent = <<cmd, "CP", cmd>>,
                                           !.out = Returned]
                   ELSE vlv' = [c EXCEPT !.pos[valve] = p1,
                                         !.sent = <<cmd, "CP">>,
                                         !.out = Returned]
  /\ UNCHANGED <<flowVars, guardVars, wr, euro, gc, pr, fd>>

\* the name of a position code
position_name(code) ==
  IF code = "A" THEN "OFF" ELSE IF code = "B" THEN "ON" ELSE "Unknown"

\* get_valve_position(valve): the query, valve_no = answer[1] and
\* position = answer[-2]
GetValvePosition ==
  /\ vlv.op = "none"
  /\ \E valve \in Valves :
       \E reply \in QueryReplies(valve, vlv.pos[valve]) :
         vlv' = [vlv EXCEPT
                   !.op = "get", !.valve = valve, !.reply = reply,
                   !.sent = <<"CP">>,
                   !.out = IF Len(reply) < 2 THEN IndexError
                           ELSE [kind |-> "returned", valve_no |-> reply[2],
                                 position |-> position_name(next_to_last(reply))]]
  /\ UNCHANGED <<flowVars, guardVars, wr, euro, gc, pr, fd>>

\* the caller goes on to its next call
ValveCallEnds ==
  /\ vlv.op # "none"
  /\ vlv' = ValveCall(vlv.pos)
  /\ UNCHANGED <<flowVars, guardVars, wr, euro, gc, pr, fd>>

NextValves == MoveValve \/ GetValvePosition \/ ValveCallEnds

InitValves == InitFlow

SpecValves == InitValves /\ [][NextValves]_vars

-----------------------------------------------------------------------------
(* GasControl: the valve modes and the pulses on the loops *)

\* largest number of pulses a call asks for
MaxPulses == 2

\* A text is a sequence of pieces.  A command handed to write() is a str or
\* a bytes object with a text.
Str(text) == [type |-> "str", text |-> text]

Bytes(text) == [type |-> "bytes", text |-> text]

\* f"/{valve}{command}"
CommandText(valve, cmd) == <<"/", valve, cmd>>

\* f"{command}": a str gives its text, a bytes object gives its repr
Format(obj) ==
  IF obj.type = "str" THEN obj.text ELSE <<"b'">> \o obj.text \o <<"'">>

out_terminator == "\r"

\* write(command): f"{command}{self.out_terminator}".encode() goes on the link
write(obj) == Format(obj) \o <<out_terminator>>

\* time.sleep(seconds) in the log of a call
Sleep(seconds) == <<"sleep", seconds>>

Modes == {"cont_mode_A", "cont_mode_B", "pulses_loop_mode_A", "pulses_loop_mode_B"}

\* variant: cont_mode_B leaves valve B where continuous A has it
ModeTargets_B_off(m) ==
  CASE m = "cont_mode_A" -> << <<"A", "OFF">>, <<"B", "OFF">>, <<"C", "OFF">> >>
    [] m = "cont_mode_B" -> << <<"A", "OFF">>, <<"B", "OFF">>, <<"C", "OFF">> >>
    [] m = "pulses_loop_mode_A" -> << <<"A", "ON">>, <<"B", "OFF">>, <<"C", "ON">> >>
    [] OTHER -> << <<"A", "ON">>, <<"B", "ON">>, <<"C", "ON">> >>

\* variant: the modes drive valve C first
ModeTargets_C_first(m) ==
  CASE m = "cont_mode_A" -> << <<"C", "OFF">>, <<"A", "OFF">>, <<"B", "OFF">> >>
    [] m = "cont_mode_B" -> << <<"C", "OFF">>, <<"A", "OFF">>, <<"B", "ON">> >>
    [] m = "pulses_loop_mode_A" -> << <<"C", "ON">>, <<"A", "ON">>, <<"B", "OFF">> >>
    [] OTHER -> << <<"C", "ON">>, <<"A", "ON">>, <<"B", "ON">> >>

\* the calls of move_valve_to_position a mode makes, in order
ModeTargets(m) ==
  CASE m = "cont_mode_A" -> << <<"A", "OFF">>, <<"B", "OFF">>, <<"C", "OFF">> >>
    [] m = "cont_mode_B" -> << <<"A", "OFF">>, <<"B", "ON">>, <<"C", "OFF">> >>
    [] m = "pulses_loop_mode_A" -> << <<"A", "ON">>, <<"B", "OFF">>, <<"C", "ON">> >>
    [] OTHER -> << <<"A", "ON">>, <<"B", "ON">>, <<"C", "ON">> >>

PulseCalls == {"send_pulses_loop_A", "send_pulses_loop_B"}

\* the mode a pulse call sets first
macro_mode(f) ==
  IF f = "send_pulses_loop_A" THEN "pulses_loop_mode_A" ELSE "pulses_loop_mode_B"

\* the other position of a two-position valve
Toggled(p) == IF p = "A" THEN "B" ELSE "A"

\* The ways one move_valve_to_position(valve, position) can go on a valve at
\* p0: a valve obeys a command or stays where it is, and the query is
\* answered by one of QueryReplies.  obeyed: the valve followed every
\* command and the answer was the controller's true one.
MoveOutcomes(p0, valve, position) ==
  LET cmd == command(position)
      want == expected_position(position)
      act == write(Str(CommandText(valve, cmd)))
      ask == write(Str(CommandText(valve, "CP")))
      io == <<act, Sleep("0.3"), ask>>
  IN UNION {
       UNION {
         LET truthful == reply = <<"/", valve, p1, ".">>
         IN IF Len(reply) < 2
            THEN {[p |-> p1, log |-> io, code |-> "", out |-> "IndexError",
                   obeyed |-> FALSE]}
            ELSE IF next_to_last(reply) # want
            THEN {[p |-> p2, log |-> Append(io, act), code |-> next_to_last(reply),
                   out |-> "returned", obeyed |-> FALSE] : p2 \in {p1, want}}
            ELSE {[p |-> p1, log |-> io, code |-> next_to_last(reply),
                   out |-> "returned", obeyed |-> truthful]}
         : reply \in QueryReplies(valve, p1)}
       : p1 \in {p0, want}}

\* variant: a pulse of send_pulses_valve_A does not go back to continuous A
RECURSIVE PulsePlan_stays_B(_)
PulsePlan_stays_B(n) ==
  IF n = 0 THEN <<>>
  ELSE <<"cont_mode_B", "sleep time_vo", "sleep time_bp">> \o PulsePlan_stays_B(n - 1)

\* the for loop of send_pulses_valve_A: cont_mode_B(), the sleep of the
\* opening time, cont_mode_A(), the sleep between pulses
RECURSIVE PulsePlan(_)
PulsePlan(n) ==
  IF n = 0 THEN <<>>
  ELSE <<"cont_mode_B", "sleep time_vo", "cont_mode_A", "sleep time_bp">>
         \o PulsePlan(n - 1)

\* the call goes on with its plan: the sleeps pass, the next mode method is
\* entered (log and readback are those of the mode being applied), or the
\* plan is at its end and the call returns
RECURSIVE NextApplication(_)
NextApplication(g) ==
  IF g.plan = <<>> THEN [g EXCEPT !.pc = "done", !.out = "returned"]
  ELSE IF Head(g.plan) \notin Modes
  THEN NextApplication([g EXCEPT !.apps = Append(@, Head(g.plan)), !.plan = Tail(@)])
  ELSE [g EXCEPT !.apps = Append(@, Head(g.plan)), !.plan = Tail(@),
                 !.todo = ModeTargets(Head(g.plan)), !.log = <<>>,
                 !.readback = <<>>]

\* where a call goes on after the last valve of its mode
AfterMode(g) ==
  IF g.op \in PulseCalls /\ g.left > 0 THEN [g EXCEPT !.pc = "pulse"]
  ELSE NextApplication(g)

\* one of the four mode methods is called
GcCallMode ==
  /\ gc.pc = "idle"
  /\ \E m \in Modes :
       gc' = [gc EXCEPT !.op = m, !.pc = "run", !.todo = ModeTargets(m),
                        !.before = gc.pos, !.apps = <<m>>]
  /\ UNCHANGED <<flowVars, guardVars, wr, euro, vlv, pr, fd>>

\* send_pulses_loop_A(pulses, time_bp) or send_pulses_loop_B(pulses,
\* time_bp) is called: the mode first, int_pulses = int(pulses)
GcCallPulses ==
  /\ gc.pc = "idle"
  /\ \E f \in PulseCalls, n \in 0..MaxPulses :
       gc' = [gc EXCEPT !.op = f, !.pc = "run", !.todo = ModeTargets(macro_mode(f)),
                        !.before = gc.pos, !.count = n, !.left = n,
                        !.apps = <<macro_mode(f)>>]
  /\ UNCHANGED <<flowVars, guardVars, wr, euro, vlv, pr, fd>>

\* the next self.valves.move_valve_to_position(valve, position) of the
\* mode; an exception in it ends the call
GcMove ==
  /\ gc.pc = "run"
  /\ LET valve == Head(gc.todo)[1]
         position == Head(gc.todo)[2]
     IN \E o \in MoveOutcomes(gc.pos[valve], valve, position) :
          LET g == [gc EXCEPT !.pos[valve] = o.p, !.log = @ \o o.log,
                              !.readback = Append(@, o.code),
                              !.obeyed = @ /\ o.obeyed, !.todo = Tail(@)]
          IN gc' = IF o.out = "IndexError"
                   THEN [g EXCEPT !.pc = "done", !.out = "IndexError"]
                   ELSE IF g.todo = <<>> THEN AfterMode(g) ELSE g
  /\ UNCHANGED <<flowVars, guardVars, wr, euro, vlv, pr, fd>>

\* one pass of the for loop: self.valves.write(b"/ATO") and
\* time.sleep(float_time).  The controller acts on what it receives or does
\* not.
GcPulse ==
  /\ gc.pc = "pulse"
  /\ \E p \in {gc.pos["A"], Toggled(gc.pos["A"])} :
       LET g == [gc EXCEPT !.pos["A"] = p,
                           !.log = @ \o <<write(Bytes(CommandText("A", "TO"))),
                                          Sleep("time_bp")>>,
                           !.left = @ - 1]
       IN gc' = IF g.left = 0 THEN [g EXCEPT !.pc = "done", !.out = "returned"]
                ELSE g
  /\ UNCHANGED <<flowVars, guardVars, wr, euro, vlv, pr, fd>>

\* get_valve_position(valve) by a caller that does not wait for the call on
\* the valves to end: once while a call is running or has just ended
ReadPosition ==
  /\ gc.pc # "idle"
  /\ gc.seen = NoSeen
  /\ \E valve \in Valves :
       \E reply \in QueryReplies(valve, gc.pos[valve]) :
         gc' = [gc EXCEPT !.seen =
                  [valve |-> valve,
                   name |-> IF Len(reply) < 2 THEN "IndexError"
                            ELSE position_name(next_to_last(reply)),
                   at |-> gc.pc,
                   sent |-> write(Str(CommandText(valve, "CP"))),
                   truthful |-> reply = <<"/", valve, gc.pos[valve], ".">>]]
  /\ UNCHANGED <<flowVars, guardVars, wr, euro, vlv, pr, fd>>

\* the caller goes on to its next call
GcReturns ==
  /\ gc.pc = "done"
  /\ gc' = GcCall(gc.pos)
  /\ UNCHANGED <<flowVars, guardVars, wr, euro, vlv, pr, fd>>

NextModes == GcCallMode \/ GcCallPulses \/ GcMove \/ GcPulse \/ ReadPosition \/ GcReturns

InitModes == InitFlow

SpecModes == InitModes /\ [][NextModes]_vars

\* send_pulses_valve_A(pulses, time_vo, time_bp) is called: cont_mode_A()
\* first, int_pulses = int(pulses)
GcCallValvePulses ==
  /\ gc.pc = "idle"
  /\ \E n \in 0..MaxPulses :
       gc' = [gc EXCEPT !.op = "send_pulses_valve_A", !.pc = "run",
                        !.todo = ModeTargets("cont_mode_A"), !.before = gc.pos,
                        !.count = n, !.apps = <<"cont_mode_A">>,
                        !.plan = PulsePlan(n)]
  /\ UNCHANGED <<flowVars, guardVars, wr, euro, vlv, pr, fd>>

NextValvePulses == GcCallValvePulses \/ GcMove \/ GcReturns

SpecValvePulses == InitModes /\ [][NextValvePulses]_vars

-----------------------------------------------------------------------------
(* FlowSMS.set_flowrate with the gas table and valve settings of a *)
(* configuration file                                              *)

\* What a configuration file can load: gas_list with every gas of the
\* calibration table or without N2_A, and valve_settings for every loaded
\* gas or for all but Ar_A.
Configs ==
  {[table |-> t, bound |-> b] :
     t \in {Gases, Gases \ {"N2_A"}}, b \in {Gases, Gases \ {"Ar_A"}}}

\* variant: feed_gas asks for no valve settings
feed_gas_unchecked(gas, bound) == "ok"

\* feed_gas(gas): ValueError when the gas has no valve_settings, else the
\* valve is moved
feed_gas(gas, bound) == IF gas \in bound THEN "ok" ELSE "ValueError"

\* set_flowrate(gas, flow) for a flow that needs no console answer
set_flowrate_loaded(m, gas, flow, table, bound) ==
  IF gas \notin table THEN CallResult("ValueError", m, <<>>, <<>>)
  ELSE LET r == range_loop(gas, flow, <<>>, <<>>)
       IN IF r.status = "ok" /\ r.flow > 0 /\ feed_gas(gas, bound) # "ok"
          THEN CallResult("ValueError", m, <<>>, Append(r.log, FeedEv(gas)))
          ELSE set_flowrate(m, gas, flow, <<>>, <<>>)

\* set_flowrate is called and returns or raises
SetFlowrateLoaded ==
  /\ fd.status = "none"
  /\ \E gas \in Gases, flow \in LineFlows :
       LET r == set_flowrate_loaded(mfc, gas, flow, fd.table, fd.bound)
       IN /\ mfc' = r.mfc
          /\ fd' = [fd EXCEPT !.gas = gas, !.flow = flow, !.status = r.status,
                              !.log = r.log, !.pre = mfc]
  /\ UNCHANGED <<phase, last, guardVars, wr, euro, vlv, gc, pr>>

\* the caller goes on, after the return or in its except clause
LoadedCallEnds ==
  /\ fd.status # "none"
  /\ fd' = [NoFeed EXCEPT !.table = fd.table, !.bound = fd.bound]
  /\ UNCHANGED <<flowVars, guardVars, wr, euro, vlv, gc, pr>>

NextLoaded == SetFlowrateLoaded \/ LoadedCallEnds

\* the state after construction with one of the configurations loaded
InitLoaded ==
  /\ phase = "idle"
  /\ mfc = ClosedMfc
  /\ last = NoCall
  /\ GuardIdle
  /\ wr = NoWrite
  /\ euro = EuroIdle
  /\ vlv = ValvesIdle
  /\ gc = GcIdle
  /\ pr = ReportIdle
  /\ \E c \in Configs : fd = [NoFeed EXCEPT !.table = c.table, !.bound = c.bound]

SpecLoaded == InitLoaded /\ [][NextLoaded]_vars

-----------------------------------------------------------------------------
(* FlowSMS.pressure_report called by two threads *)

\* what the pressure meters read: a value inside the thresholds and one
\* above them
Readings == {low_threshold + 5, high_threshold + 5}

\* a thread calls pressure_report()
ReportCall(t) ==
  /\ pr.th[t].pc = "idle"
  /\ pr' = [pr EXCEPT !.th[t] = [NoReport EXCEPT !.pc = "a"]]
  /\ UNCHANGED <<flowVars, guardVars, wr, euro, vlv, gc, fd>>

\* values_p_a = read_parameters(node 3); self.p_a = float(...)
ReportReadA(t) ==
  /\ pr.th[t].pc = "a"
  /\ \E v \in Readings :
       pr' = [pr EXCEPT !.p_a = Some(v), !.th[t].got_a = Some(v), !.th[t].pc = "b"]
  /\ UNCHANGED <<flowVars, guardVars, wr, euro, vlv, gc, fd>>

\* values_p_b = read_parameters(node 14); self.p_b = float(...)
ReportReadB(t) ==
  /\ pr.th[t].pc = "b"
  /\ \E v \in Readings :
       pr' = [pr EXCEPT !.p_b = Some(v), !.th[t].got_b = Some(v), !.th[t].pc = "ret"]
  /\ UNCHANGED <<flowVars, guardVars, wr, euro, vlv, gc, fd>>

\* return self.p_a, self.p_b
ReportReturn(t) ==
  /\ pr.th[t].pc = "ret"
  /\ pr' = [pr EXCEPT !.th[t].ret = <<pr.p_a, pr.p_b>>, !.th[t].pc = "done"]
  /\ UNCHANGED <<flowVars, guardVars, wr, euro, vlv, gc, fd>>

\* the caller has the pair and goes on
ReportUsed(t) ==
  /\ pr.th[t].pc = "done"
  /\ pr' = [pr EXCEPT !.th[t] = NoReport]
  /\ UNCHANGED <<flowVars, guardVars, wr, euro, vlv, gc, fd>>

NextReport ==
  \E t \in Threads :
    ReportCall(t) \/ ReportReadA(t) \/ ReportReadB(t) \/ ReportReturn(t) \/ ReportUsed(t)

SpecReport == InitFlow /\ [][NextReport]_vars

-----------------------------------------------------------------------------
(* Properties of the guarded call *)

\* either line above high_threshold or below low_threshold
Breach(p) ==
  \/ p[1] > high_threshold
  \/ p[2] > high_threshold
  \/ p[1] < low_threshold
  \/ p[2] < low_threshold

IsPrefix(s, t) == Len(s) <= Len(t) /\ \A i \in 1..Len(s) : s[i] = t[i]

AbortSeq == <<"sample", "zero", "flag", "temp">>

C2_TeardownJoinsWatcher ==
  /\ (opc \in {"run", "finally", "join"}) => wpc # "off"
  /\ (opc \in {"returned", "raised"}) =>
       (finished /\ wpc = "done" /\ ~ENABLED Watcher)

\* the operation raised with no alarm and the wrapper re-raised after the
\* watcher had seen the flag and ended
C2_Witness ==
  /\ opc = "raised"
  /\ ~alarmSeen
  /\ opSteps > 0
  /\ wlog # <<>>
  /\ wpc = "done"

\* C3: the watcher never blocks or interrupts the operation: while the
\* operation runs its next step is enabled whatever the watcher does, and
\* after an alarm the operation still goes on to its own end.
C3_OperationNeverBlocked ==
  /\ [](opc = "run" => ENABLED OpNext)
  /\ (alarmSeen /\ opc = "run") ~> (opc # "run" /\ opResult.kind # "none")

\* the operation executed statements after the alarm and returned its value
C3_Witness ==
  /\ alarmSeen
  /\ stepsAfterAlarm > 0
  /\ opc = "returned"
  /\ opResult.kind = "return"

\* C4: the alarm never reaches the caller as an exception: the wrapper
\* returns the value the operation returned, or re-raises what it raised,
\* whether or not the alarm fired.
C4_ResultUnchanged ==
  /\ (opc = "returned") => (opResult.kind = "return" /\ result = opResult)
  /\ (opc = "raised") => (opResult.kind = "raise" /\ result = opResult)
  /\ (opc \notin {"returned", "raised"}) => result = NoResult

\* the alarm fired and the caller still received the operation's value
C4_Witness ==
  /\ opc = "returned"
  /\ alarmSeen
  /\ wlog = AbortSeq
  /\ result = [kind |-> "return", val |-> 2]

-----------------------------------------------------------------------------
(* Properties of the flow interface *)

DoneOp(op) == phase = "done" /\ last.op = op

SetpointWrites(log) == {i \in 1..Len(log) : log[i].ev = "write" /\ log[i].parm = 1}

CurveWrites(log) == {i \in 1..Len(log) : log[i].ev = "write" /\ log[i].parm = 16}

Prompts(log) == {i \in 1..Len(log) : log[i].ev = "prompt"}

Feeds(log) == {i \in 1..Len(log) : log[i].ev = "feed"}

\* the setpoint a family member has: the node's setpoint while the member's
\* curve is the active one (a gas without a curve has the node to itself)
MemberSetpoint(m, g) ==
  IF IsNone(gas_cal[g]) \/ m[gas_ID[g]].cal = gas_cal[g] THEN m[gas_ID[g]].sp ELSE 0

PositiveRequest(kwargs, g) == ~IsNone(kwarg(kwargs, g)) /\ Val(kwarg(kwargs, g)) > 0

FamilyMembers(k) == {gas_params[k][i] : i \in 1..Len(gas_params[k])}

\* C5: set_flowrate never writes a non-zero setpoint that converts a flow
\* outside the gas's range: every setpoint it writes is 0 or lies between the
\* conversions of the range's ends, whatever is answered at the prompt.
C5_NoOutOfRangeWrite ==
  DoneOp("set_flowrate") =>
    \A i \in SetpointWrites(last.log) :
      \/ last.log[i].data = 0
      \/ /\ last.log[i].data >= flow_data(last.gas, gas_flow_range[last.gas][1])
         /\ last.log[i].data <= flow_data(last.gas, gas_flow_range[last.gas][2])

C7_FirstPositiveApplied ==
  (DoneOp("setpoints") /\ last.status = "ok") =>
    \A k \in 1..Len(gas_params) :
      \A i \in 1..Len(gas_params[k]) :
        (/\ PositiveRequest(last.kwargs, gas_params[k][i])
         /\ \A j \in 1..(i - 1) : ~PositiveRequest(last.kwargs, gas_params[k][j]))
        => \A w \in SetpointWrites(last.log) :
             last.log[w].node = gas_ID[gas_params[k][i]]
               => last.log[w].gas = gas_params[k][i]

\* the other spelling of a closed request
OtherClosed(flow) == IF IsNone(flow) THEN Some(0) ELSE None

\* C8: set_flowrate(g, 0) and set_flowrate(g, None) are equivalent: each
\* returns after writing setpoint 0, asks nothing at the console, calls no
\* feed action, and issues the same device writes with the same effect as
\* the other.
C8_ClosedEquivalent ==
  (DoneOp("set_flowrate") /\ last.flow \in {None, Some(0)}) =>
    /\ last.status = "ok"
    /\ Prompts(last.log) = {}
    /\ Feeds(last.log) = {}
    /\ \A i \in SetpointWrites(last.log) : last.log[i].data = 0
    /\ SetpointWrites(last.log) # {}
    /\ mfc[gas_ID[last.gas]].sp = 0
    /\ LET o == set_flowrate(last.pre, last.gas, OtherClosed(last.flow), <<>>, <<>>)
       IN o.status = "ok" /\ o.log = last.log /\ o.mfc = mfc

\* a flow of 0 closed a controller that was open
C8_Witness ==
  /\ DoneOp("set_flowrate")
  /\ last.flow = Some(0)
  /\ last.pre[gas_ID[last.gas]].sp # 0
  /\ mfc[gas_ID[last.gas]].sp = 0

\* C9: set_flowrate with flow 0 or None writes no calibration-curve
\* selection, only the zero setpoint.
C9_ClosedWritesNoCurve ==
  (DoneOp("set_flowrate") /\ last.flow \in {None, Some(0)}) =>
    CurveWrites(last.log) = {}

\* C10: for a flow whose conversion is inside the gas's range the setpoint
\* written differs from round(flow / calibration_factor * 32000 / scale) by
\* at most one unit, and Ar_A at 15.00 sccm writes 8000.
C10_Quantization ==
  (/\ DoneOp("set_flowrate")
   /\ ~IsNone(last.flow)
   /\ Val(last.flow) # 0
   /\ ~below_min(last.gas, Val(last.flow))
   /\ ~above_max(last.gas, Val(last.flow))) =>
    LET exact == RoundHalfEven(Val(last.flow) * 32000,
                   calibration_factor[last.gas] * gas_float_to_int_factor[last.gas])
    IN /\ last.status = "ok"
       /\ Cardinality(SetpointWrites(last.log)) = 1
       /\ \A i \in SetpointWrites(last.log) :
            /\ last.log[i].data - exact \in {-1, 0, 1}
            /\ mfc[gas_ID[last.gas]].sp = last.log[i].data
            /\ (last.gas = "Ar_A" /\ last.flow = Some(1500)) => last.log[i].data = 8000

\* Ar_A was set to 15.00 sccm and its controller holds 8000
C10_Witness ==
  /\ DoneOp("set_flowrate")
  /\ last.gas = "Ar_A"
  /\ last.flow = Some(1500)
  /\ mfc[8].sp = 8000

-----------------------------------------------------------------------------
(* Properties of the batch write *)

\* C11: for a valid non-zero flow set_flowrate calls feed_gas before any
\* write, then writes one batch to the gas's node in which the calibration
\* curve (there only if the gas has one) comes before the setpoint; when the
\* batch is acknowledged the node holds that curve and that setpoint.
C11_FeedThenCurveThenSetpoint ==
  (wr.status # "none" /\ ~is_closed(wr.flow)) =>
    LET log == wr.log
        g == wr.gas
        node == gas_ID[g]
    IN /\ Cardinality(Feeds(log)) = 1
       /\ \A i \in Feeds(log) : log[i].gas = g /\ i = 1
       /\ \A i \in 2..Len(log) : log[i].ev = "write" /\ log[i].node = node
       /\ Cardinality(SetpointWrites(log)) = 1
       /\ Cardinality(CurveWrites(log)) = (IF IsNone(gas_cal[g]) THEN 0 ELSE 1)
       /\ \A i \in CurveWrites(log) :
            /\ log[i].data = Val(gas_cal[g])
            /\ \A j \in SetpointWrites(log) : i < j
       /\ \A j \in SetpointWrites(log) :
            /\ log[j].data = flow_data(g, Val(wr.flow))
            /\ wr.status = "ok" => mfc[node].sp = log[j].data
       /\ (wr.status = "ok" /\ ~IsNone(gas_cal[g])) => mfc[node].cal = gas_cal[g]

\* argon at 15 sccm was fed, written after helium's curve had been active,
\* and acknowledged
C11_Witness ==
  /\ wr.status = "ok"
  /\ wr.gas = "Ar_A"
  /\ wr.flow = Some(1500)
  /\ Len(wr.log) = 3
  /\ mfc[gas_ID["Ar_A"]] = [cal |-> Some(1), sp |-> 8000]

\* C12: the writes of set_flowrate go through the retry wrapper: a batch
\* that is not acknowledged is written again, max_retries times in all,
\* before set_flowrate reports the failure.
C12_WritesRetried ==
  (wr.status \notin {"none", "ok"}) =>
    Cardinality(SetpointWrites(wr.log)) = max_retries

-----------------------------------------------------------------------------
(* Properties of retry_write and its callers *)

Attempts(log) == {i \in 1..Len(log) : log[i][1] = "write"}

Sleeps(log) == {i \in 1..Len(log) : log[i] = SleepEv}

\* the attempts answered by a falsy acknowledgement, absent or not
FalsyAttempts(log) == {i \in Attempts(log) : log[i][2] \in {"None", "False"}}

\* the attempts that got no acknowledgement at all
AbsentAttempts(log) == {i \in Attempts(log) : log[i][2] = "None"}

\* retry_write has ended (returned or raised) and its caller has not gone on
RetryWriteEnded == euro.pc = "after"

\* C13: retry_write makes at most max_retries attempts; it returns True
\* right after the first acknowledged attempt and writes no more; when every
\* attempt fails it returns False after exactly max_retries attempts.
C13_AtMostMaxAttempts ==
  LET log == euro.log
  IN /\ Cardinality(Attempts(log)) <= euro.max
     /\ \A i \in Attempts(log) : log[i][2] = "True" =>
          (i = Len(log) /\ euro.rw = "True")
     /\ (RetryWriteEnded /\ FalsyAttempts(log) = Attempts(log)) =>
          (euro.rw = "False" /\ Cardinality(Attempts(log)) = euro.max)

\* C14: when every attempt fails, one sleep of retry_delay lies between
\* each two consecutive attempts: max_retries attempts, max_retries - 1
\* sleeps, then False.
C14_SleepsBetweenAttempts ==
  LET log == euro.log
  IN (RetryWriteEnded /\ AbsentAttempts(log) = Attempts(log)) =>
       /\ euro.rw = "False"
       /\ Cardinality(Attempts(log)) = euro.max
       /\ Cardinality(Sleeps(log)) = euro.max - 1
       /\ \A i \in 1..(Len(log) - 1) : (log[i] = SleepEv) # (log[i + 1] = SleepEv)

\* C15: a falsy acknowledgement (False as well as None) makes the attempt a
\* failed one, followed by the sleep and the retry; True is returned only
\* for an attempt the controller acknowledged.
C15_FalsyAckIsFailure ==
  LET log == euro.log
  IN /\ \A i \in FalsyAttempts(log) :
          \/ i < Len(log) /\ log[i + 1] = SleepEv
          \/ i = Len(log) /\ euro.pc = "sleep"
     /\ euro.rw = "True" => euro.acked

\* C16: retry_write never raises: an error of the transport during an
\* attempt is retried like a failed attempt and ends as the result False.
C16_NeverRaises ==
  /\ euro.rw # "raise"
  /\ \A i \in Attempts(euro.log) : euro.log[i][2] = "raise" =>
       (i < Len(euro.log) \/ euro.pc = "sleep")

\* C17: when the setpoint write of a helper has exhausted its retries the
\* helper stops there and reports the failure: it makes no further write,
\* does not go on to its loop and does not return as after a success.
C17_ExhaustedWriteHalts ==
  (euro.helper \in Helpers /\ "sp" \in euro.failed) =>
    /\ euro.pc \notin {"attempt", "sleep", "loop"}
    /\ euro.out \notin {"True", "None"}

-----------------------------------------------------------------------------
(* Properties of the valve calls *)

\* a move to ON or OFF has ended, by return or by an exception
MoveEnded == vlv.op = "move" /\ vlv.target \in {"ON", "OFF"} /\ vlv.out.kind # "none"

\* the code read back is the expected one
ReadbackMatches ==
  Len(vlv.reply) >= 2 /\ next_to_last(vlv.reply) = expected_position(vlv.target)

Actuations == {i \in 1..Len(vlv.sent) : vlv.sent[i] = command(vlv.target)}

Queries == {i \in 1..Len(vlv.sent) : vlv.sent[i] = "CP"}

\* C18: a move to ON or OFF always sends the command of the target first,
\* then exactly one query, and sends the command once more exactly when the
\* code read back is not the expected one: never more than two commands.
C18_OneQueryOneRetry ==
  MoveEnded =>
    /\ Len(vlv.sent) >= 2
    /\ vlv.sent[1] = command(vlv.target)
    /\ Queries = {2}
    /\ Cardinality(Actuations) <= 2
    /\ (Cardinality(Actuations) = 2) <=> ~ReadbackMatches

\* C19: a move returns normally whatever the controller answers to the
\* query, a missing, empty or garbled answer included.
C19_MismatchAccepted ==
  vlv.op = "move" => vlv.out.kind \in {"none", "returned"}

\* C20: get_valve_position returns OFF when the next-to-last character of
\* the answer is "A", ON when it is "B" and Unknown for any other answer, an
\* empty or one-character answer included.
C20_PositionNames ==
  vlv.op = "get" =>
    /\ vlv.out.kind = "returned"
    /\ vlv.out.position =
         (IF Len(vlv.reply) >= 2 /\ next_to_last(vlv.reply) = "A" THEN "OFF"
          ELSE IF Len(vlv.reply) >= 2 /\ next_to_last(vlv.reply) = "B" THEN "ON"
          ELSE "Unknown")

-----------------------------------------------------------------------------
(* Properties of the watcher's life *)

\* C25: after an alarm the watcher goes on re-issuing the safe-state
\* commands every polling interval for as long as the guarded call runs: it
\* has not ended while the operation is still running.
C25_AlarmedWatcherStaysAlive ==
  (alarmSeen /\ opc = "run") => wpc # "done"

\* the I/O of setpoints() with no arguments
SafeStateIO == setpoints(ClosedMfc, <<>>, <<>>).log

\* C26: the safe-state sequence of an alarm commands the shutoff valves
\* closed as well as zeroing the flows: once the sequence has run, a command
\* has gone to a valve.
C26_AlarmClosesValves ==
  (wlog = AbortSeq) => (vlv.sent # <<>> \/ Feeds(SafeStateIO) # {})

\* C28: every guarded call starts with the flag unset and a watcher of its
\* own, also after a call that ended in an alarm: while the operation runs
\* and this call has had no alarm the flag is unset and the watcher exists.
C28_FreshFlagEachCall ==
  (opc = "run") =>
    /\ wpc # "off"
    /\ ~alarmSeen => ~finished

\* the call before ended in an alarm (its last sample is still there, its
\* flag was left set) and the watcher of the new call is about to sample
C28_Witness ==
  /\ opc = "run"
  /\ ~alarmSeen
  /\ Breach(sample)
  /\ wlog = <<>>
  /\ wpc = "read"
  /\ ~finished

\* C29: in a guarded call without an alarm the watcher samples for the
\* whole life of the call, a failed or malformed pressure read included: it
\* has not ended while the operation is still running.
C29_MonitoringNeverStops ==
  (opc = "run" /\ ~alarmSeen) => wpc # "done"

\* C30: the flag is looked at only at the top of the loop: once the wrapper
\* has set it the watcher starts no new iteration, ends after at most the
\* one it is in, and the guarded call returns.
C30_CancelledAtLoopTop ==
  /\ [][(opc = "join" /\ wpc = "loop") => wpc' # "read"]_vars
  /\ (opc = "join") ~> (opc \in {"returned", "raised"})

\* the flag was set while the watcher slept; it woke, saw the flag at the
\* top of the loop and ended, and the call returned
C30_Witness ==
  /\ opc = "returned"
  /\ wpc = "done"
  /\ finished
  /\ ~alarmSeen
  /\ wlog = <<"sample", "sleep">>

-----------------------------------------------------------------------------
(* Properties of the temperature shutdown *)

\* setpoint_finish_experiment is at the write of its setpoint
ShutdownSetpointWrite ==
  /\ euro.helper = "setpoint_finish_experiment"
  /\ euro.pc \in {"attempt", "sleep", "after"}
  /\ Head(euro.stages) = "sp"

\* C27: the temperature shutdown commands 20 C: its setpoint write goes
\* through retry_write with the default number of attempts, to the setpoint
\* register, with the value 200 (tenths of a degree), and an acknowledged
\* write leaves 200 in the register.
C27_ShutdownWrites200 ==
  ShutdownSetpointWrite =>
    /\ euro.reg = SpReg
    /\ euro.value = FinishSp
    /\ euro.max = max_retries
    /\ Len(euro.log) <= 2 * max_retries
    /\ (euro.pc = "after" /\ euro.acked) => euro.regs[SpReg] = FinishSp

\* the first attempt was not answered, the second was acknowledged
C27_Witness ==
  /\ ShutdownSetpointWrite
  /\ euro.pc = "after"
  /\ euro.log = <<WriteEv("None"), SleepEv, WriteEv("True")>>
  /\ euro.regs[SpReg] = FinishSp

-----------------------------------------------------------------------------
(* Properties of the valve modes and of the pulses *)

\* the state a mode is listed with
ListedState(m) ==
  CASE m = "cont_mode_A" -> [v \in Valves |-> "OFF"]
    [] m = "cont_mode_B" -> [v \in Valves |-> IF v = "B" THEN "ON" ELSE "OFF"]
    [] m = "pulses_loop_mode_A" -> [v \in Valves |-> IF v = "B" THEN "OFF" ELSE "ON"]
    [] OTHER -> [v \in Valves |-> "ON"]

\* the positions of a listed state
ListedPos(m) == [v \in Valves |-> expected_position(ListedState(m)[v])]

IsMessage(e) == e[1] # "sleep"

\* what a call has put on the link
Messages(log) == SelectSeq(log, IsMessage)

\* the wire form /{valveId}{command}\r
WireForm(valve, cmd) == <<"/", valve, cmd, "\r">>

Actuating(msg) == \E v \in Valves, c \in {"CW", "CC"} : msg = WireForm(v, c)

ValveIndex(v) == IF v = "A" THEN 1 ELSE IF v = "B" THEN 2 ELSE 3

\* C22: a mode actuates A, then B, then C, and has queried each valve
\* after its actuation before it actuates the next: the valves are moved one
\* at a time.
C22_OneValveAtATime ==
  gc.op \in Modes =>
    LET w == Messages(gc.log)
    IN /\ \A i, j \in 1..Len(w) :
            i < j => ValveIndex(w[i][2]) <= ValveIndex(w[j][2])
       /\ \A j \in 1..Len(w) :
            Actuating(w[j]) =>
              \A u \in Valves :
                ValveIndex(u) < ValveIndex(w[j][2]) =>
                  \E k, i \in 1..Len(w) :
                    /\ k < i /\ i < j
                    /\ Actuating(w[k]) /\ w[k][2] = u
                    /\ w[i] = WireForm(u, "CP")

\* from continuous A to the pulses mode B: valve A has moved, B and C have
\* not, the positions are those of no mode, and a reader is given ON for A
C22_Witness ==
  /\ gc.op = "pulses_loop_mode_B"
  /\ gc.pc = "run"
  /\ gc.before = ListedPos("cont_mode_A")
  /\ gc.pos = [v \in Valves |-> IF v = "A" THEN "B" ELSE "A"]
  /\ \A m \in Modes : gc.pos # ListedPos(m)
  /\ gc.seen.at = "run"
  /\ gc.seen.valve = "A"
  /\ gc.seen.name = "ON"

RECURSIVE PulseTrain(_)
\* n times a toggle of valve A and the sleep of the interval
PulseTrain(n) ==
  IF n = 0 THEN <<>>
  ELSE <<WireForm("A", "TO"), Sleep("time_bp")>> \o PulseTrain(n - 1)

\* C23: a pulse call that has returned has set its mode and then sent
\* exactly count toggle commands to the valve, each followed by one sleep of
\* the interval, and no query between or after them.
C23_CountToggles ==
  (gc.op \in PulseCalls /\ gc.pc = "done" /\ gc.out = "returned") =>
    /\ Len(gc.log) >= 2 * gc.count
    /\ SubSeq(gc.log, Len(gc.log) - 2 * gc.count + 1, Len(gc.log))
         = PulseTrain(gc.count)
    /\ \A i \in 1..(Len(gc.log) - 2 * gc.count) :
         /\ gc.log[i] # Sleep("time_bp")
         /\ gc.log[i] # WireForm("A", "TO")

\* C24: every message on the valve link, of a move, a mode, a position read
\* or a pulse, has the form /{valveId}{command}\r with command one of CW, CC,
\* CP, TO.
C24_WireForm ==
  /\ \A i \in 1..Len(gc.log) :
       IsMessage(gc.log[i]) =>
         \E v \in Valves, c \in {"CW", "CC", "CP", "TO"} : gc.log[i] = WireForm(v, c)
  /\ gc.seen.sent # <<>> =>
       \E v \in Valves : gc.seen.sent = WireForm(v, "CP")

-----------------------------------------------------------------------------
(* Properties of the pressure sample *)

\* C31: the pair a pressure_report call returns is made of the two values
\* that call read itself, also when two threads call it on the same object
\* at the same time.
C31_SampleIsOneRead ==
  \A t \in Threads :
    pr.th[t].pc = "done" => pr.th[t].ret = <<pr.th[t].got_a, pr.th[t].got_b>>

-----------------------------------------------------------------------------
(* Properties of the abort sequence *)

\* C32: once the watcher has zeroed the flows every setpoint is still zero
\* when the guarded call returns, whatever the operation does.
C32_FlowsStayZero ==
  (zeroedAll /\ opc \in {"returned", "raised"}) => \A n \in Nodes : mfc[n].sp = 0

\* the families whose controller has a setpoint that is not zero
OpenFamilies ==
  {k \in 1..Len(gas_params) : \E g \in FamilyMembers(k) : mfc[gas_ID[g]].sp # 0}

\* C33: when setpoints() raises for a family in the abort sequence the
\* watcher still zeroes the other families, sets the flag and calls the
\* temperature shutdown: a watcher that has ended after an alarm has done
\* all three.
C33_AbortSurvivesFailedZeroing ==
  (alarm # "none" /\ wpc = "done") =>
    /\ \E i \in 1..Len(wlog) : wlog[i] = "flag"
    /\ \E i \in 1..Len(wlog) : wlog[i] = "temp"
    /\ (opSteps = 0) => Cardinality(OpenFamilies) <= 1

\* C34: the abort sequence waits for no operator: from every state of the
\* controllers setpoints() without arguments returns with an empty console,
\* after one zero setpoint per family, no range prompt and no feed action,
\* and the watcher goes on to set the flag.
C34_AbortAsksNothing ==
  LET r == setpoints(mfc, <<>>, <<>>)
  IN /\ r.status = "ok"
     /\ Prompts(r.log) = {}
     /\ Feeds(r.log) = {}
     /\ Cardinality(SetpointWrites(r.log)) = Len(gas_params)
     /\ \A i \in SetpointWrites(r.log) : r.log[i].data = 0
     /\ (wpc = "flag") => (zeroedAll /\ ENABLED WFlag)

\* the watcher has zeroed the flows while the operation runs and is about
\* to set the flag
C34_Witness ==
  /\ wpc = "flag"
  /\ wlog = <<"sample", "zero">>
  /\ zeroedAll
  /\ opc = "run"
  /\ opSteps > 0

\* C37: a sample is a high alarm iff a line is strictly above
\* high_threshold, a low alarm iff no line is above high_threshold and a
\* line is strictly below low_threshold, and nominal otherwise; the abort
\* sequence starts exactly on an alarm.
C37_Classification ==
  (wlog # <<>> /\ wlog[1] = "sample") =>
    LET above == sample[1] > high_threshold \/ sample[2] > high_threshold
        below == sample[1] < low_threshold \/ sample[2] < low_threshold
    IN /\ alarm = "HIGH" <=> above
       /\ alarm = "LOW" <=> (~above /\ below)
       /\ alarm = "none" <=> (~above /\ ~below)
       /\ (wlog = <<"sample">> /\ wpc # "done") =>
            wpc = (IF alarm = "none" THEN "sleep" ELSE "zero")

\* line A is above the high threshold and line B below the low one: the
\* alarm is the high one
C37_Witness ==
  /\ sample = <<high_threshold + 5, low_threshold - 5>>
  /\ wlog = <<"sample">>
  /\ alarm = "HIGH"
  /\ wpc = "zero"

-----------------------------------------------------------------------------
(* Properties of a set_flowrate call that raises before it writes *)

\* C35: set_flowrate writes nothing when it fails before the write: for a
\* gas that is not in the loaded table it raises with no device I/O, and for
\* a non-zero flow of a gas without valve settings the feed action raises
\* and neither the calibration curve nor the setpoint is written.
C35_NoWriteBeforeFailure ==
  (fd.status # "none") =>
    LET unknown == fd.gas \notin fd.table
        unfed == ~unknown /\ ~is_closed(fd.flow) /\ fd.gas \notin fd.bound
    IN /\ (fd.status = "ValueError") <=> (unknown \/ unfed)
       /\ unknown => (fd.log = <<>> /\ mfc = fd.pre)
       /\ unfed => (fd.log = <<FeedEv(fd.gas)>> /\ mfc = fd.pre)
       /\ (fd.status = "ok") => SetpointWrites(fd.log) # {}

\* argon has no valve settings: the call for 15 sccm raised in the feed
\* action and the carrier controller, open for helium, is as it was
C35_Witness ==
  /\ fd.status = "ValueError"
  /\ fd.gas = "Ar_A"
  /\ fd.flow = Some(1500)
  /\ fd.log = <<FeedEv("Ar_A")>>
  /\ fd.pre[gas_ID["Ar_A"]] = [cal |-> Some(0), sp |-> 8000]
  /\ mfc = fd.pre

-----------------------------------------------------------------------------
(* Properties of the correction dialogue and of the two setpoints methods *)

\* a flow that is not closed and whose conversion is outside the gas's range
OutOfRange(gas, flow) ==
  ~is_closed(flow) /\ (below_min(gas, Val(flow)) \/ above_max(gas, Val(flow)))

\* the j-th prompt of a log, as an index of the log
RECURSIVE NthPrompt(_, _, _)
NthPrompt(log, j, from) ==
  IF from > Len(log) THEN 0
  ELSE IF log[from].ev = "prompt"
       THEN IF j = 1 THEN from ELSE NthPrompt(log, j - 1, from + 1)
       ELSE NthPrompt(log, j, from + 1)

\* C36: a flow typed as a correction is checked against the range before
\* anything is written: when it is out of range itself the violation is
\* reported for it and the operator asked again, with no write in between;
\* when it is in range it is the flow that is written.
C36_CorrectionRechecked ==
  DoneOp("set_flowrate") =>
    \A j \in 1..Len(last.script) :
      LET reply == last.script[j]
          next == NthPrompt(last.log, j + 1, 1)
      IN (reply.ans = "Yes" /\ ~IsNone(reply.new)) =>
           IF OutOfRange(last.gas, reply.new)
           THEN /\ next # 0
                /\ last.log[next] = PromptEv(last.gas, Val(reply.new))
                /\ \A i \in 1..next : last.log[i].ev # "write"
           ELSE /\ j = Len(last.script)
                /\ last.status = "ok"
                /\ \A i \in SetpointWrites(last.log) :
                     last.log[i].data = flow_data(last.gas, Val(reply.new))

\* 70 sccm of argon was refused, the correction to 70 sccm was refused
\* again, and the second correction, 15 sccm, was written
C36_Witness ==
  /\ DoneOp("set_flowrate")
  /\ last.gas = "Ar_A"
  /\ last.flow = Some(7000)
  /\ last.script = <<[ans |-> "Yes", new |-> Some(7000)],
                     [ans |-> "Yes", new |-> Some(1500)]>>
  /\ Cardinality(Prompts(last.log)) = 2
  /\ last.status = "ok"
  /\ mfc[gas_ID["Ar_A"]].sp = 8000

\* C38: setpoints and setpoints_old are interchangeable: for the same
\* requests, from the same controllers and with the same console answers,
\* they end the same way and leave every controller with the same selected
\* gas and the same setpoint.
C38_SameAsOld ==
  DoneOp("setpoints") =>
    LET old == setpoints_old(last.pre, last.kwargs, last.script)
    IN /\ old.status = last.status
       /\ old.mfc = mfc

-----------------------------------------------------------------------------
(* Properties of the pulses with the valves *)

\* what a call of n pulses does after its first mode
RECURSIVE ValvePulses(_)
ValvePulses(n) ==
  IF n = 0 THEN <<>>
  ELSE <<"cont_mode_B", "sleep time_vo", "cont_mode_A", "sleep time_bp">>
         \o ValvePulses(n - 1)

\* C39: send_pulses_valve_A that has returned applied continuous A, then
\* for each pulse continuous B once and continuous A once, and the last
\* commands sent drive A, B and C to OFF; valves that obey are all OFF.
C39_EndsInContinuousA ==
  (gc.op = "send_pulses_valve_A" /\ gc.pc = "done" /\ gc.out = "returned") =>
    LET acts == SelectSeq(Messages(gc.log), Actuating)
    IN /\ gc.apps = <<"cont_mode_A">> \o ValvePulses(gc.count)
       /\ {acts[i][2] : i \in 1..Len(acts)} = Valves
       /\ \A i \in 1..Len(acts) : acts[i][3] = "CW"
       /\ gc.obeyed => gc.pos = ListedPos("cont_mode_A")

\* two pulses: five modes applied, the valves obeyed and are all OFF
C39_Witness ==
  /\ gc.op = "send_pulses_valve_A"
  /\ gc.pc = "done"
  /\ gc.out = "returned"
  /\ gc.count = 2
  /\ Len(gc.apps) = 9
  /\ gc.obeyed
  /\ gc.pos = ListedPos("cont_mode_A")

====
